---- MODULE Spec2Model ----
(***************************************************************************)
(* HuggingFace repository onboarding by code scanning                      *)
(* (src/src/alltrue_scanner/huggingface_onboarding.py).                    *)
(*                                                                         *)
(* Three specifications over one set of variables:                        *)
(*   PollSpec  one call of _poll_via_graphql, fed arbitrary poll replies;  *)
(*   Spec      one call of onboard_huggingface_models, every remote reply  *)
(*             chosen by the environment;                                  *)
(*   RaceSpec  two callers of _create_repository_config against a          *)
(*             registration service that rejects duplicates with 409.      *)
(***************************************************************************)
EXTENDS Integers, Sequences, FiniteSets, TLC

\* Python None, a missing key of a JSON object, a falsy id.
None == "None"

\* ------------------------------------------------------------------ bounds
\* Longest list of repository specs handed to the batch driver.
MaxModels == 2
\* The poller's deadline, in poll intervals (the driver passes 1200 s at a
\* 10 s interval, i.e. 120 intervals).
TimeoutPolls == 5
\* Longest list of registrations in the reply to one lookup of FindSpec.
MaxRepos == 2
\* Items a configuration text is written from.
MaxTokens == 2

\* ------------------------------------------------------- program constants
\* stable_count >= 3
StableThreshold == 3
\* poll_interval_secs=10.0
poll_interval_secs == 10
\* timeout_secs, scaled to TimeoutPolls intervals
timeout_secs == TimeoutPolls * poll_interval_secs
\* status code of a duplicate create
Conflict == 409
\* another HTTP failure of the create call
ServerError == 500
\* an authentication failure of the create call
Unauthorized == 401

\* iterations of a loop that forgot to sleep: the clock may stand still
IterationSecsNoSleep == {0, poll_interval_secs}

\* Wall-clock time one loop iteration of the poller takes: the sleep of
\* poll_interval_secs plus the time the query took (none, or one more
\* interval).
IterationSecs == {poll_interval_secs, 2 * poll_interval_secs}

\* ------------------------------------------------------------ remote data
\* resourceInstances of one repository, each instance given by its id
\* (None: an instance whose id is missing).
ResourceLists ==
  { <<>>, <<None>>, <<"r1">>, <<"r2", "r1">>, <<"r1", None>> }

Repo(id, instances) == [id |-> id, resourceInstances |-> instances]

\* Replies of the getRepositories query as the poller and the resource read
\* use it: the repositories of the customer, the one asked for among them
\* or not.
ResourceReplies(rid) ==
  { [ok |-> FALSE] }
    \cup { [ok |-> TRUE, repositories |-> <<>>],
           [ok |-> TRUE, repositories |-> << Repo("other", <<"r9">>) >>] }
    \cup { [ok |-> TRUE, repositories |-> << Repo("other", <<"r9">>), Repo(rid, l) >>]
             : l \in ResourceLists }

\* ----------------------------------------------------------- pure helpers
\* the last element in iteration order
Max(S) == CHOOSE x \in S : \A y \in S : x >= y

Min(S) == CHOOSE x \in S : \A y \in S : x <= y

\* [r.get("id") for r in resource_instances if r.get("id")]
RECURSIVE IdsOf(_)
IdsOf(instances) ==
  IF instances = <<>> THEN <<>>
  ELSE IF Head(instances) = None THEN IdsOf(Tail(instances))
       ELSE <<Head(instances)>> \o IdsOf(Tail(instances))

\* for repo in repositories: if repo.get("id") == repository_config_id
\* (0: the loop ends without a break)
FindById(repositories, rid) ==
  LET hits == { i \in 1..Len(repositories) : repositories[i].id = rid }
  IN  IF hits = {} THEN 0 ELSE Min(hits)

\* One registration as getRepositories returns it.
Reg(id, organization, name, vcs, project) ==
  [id |-> id, organization |-> organization, name |-> name, vcs |-> vcs,
   project |-> project]

\* The registration of (organization, name) on the HuggingFace hub, under
\* project p (None: no project association).
Match(organization, name, p) == Reg("c1", organization, name, "huggingface_hub", p)
\* Registrations with another key: another repository name, another vcs.
OtherName(organization) == Reg("c4", organization, "elsewhere", "huggingface_hub", None)
OtherVcs(organization, name) == Reg("c5", organization, name, "github", "p1")

\* What the customer's registrations can look like in one reply: the
\* service keeps at most one registration per (vcs, organization, name).
RegistrationLists(organization, name) ==
  { <<>>, << OtherName(organization) >>, << OtherVcs(organization, name) >> }
    \cup { << Match(organization, name, p) >> : p \in {None, "p1", "p2"} }
    \cup { << OtherVcs(organization, name), Match(organization, name, p) >>
             : p \in {None, "p1", "p2"} }
    \cup { << Match(organization, name, p), OtherName(organization) >>
             : p \in {None, "p1", "p2"} }

\* Replies of the getRepositories query of _find_existing_repository.
LookupReplies(organization, name) ==
  { [ok |-> FALSE] }
    \cup { [ok |-> TRUE, repositories |-> l] : l \in RegistrationLists(organization, name) }

\* Replies of POST .../repositories: a body with or without
\* repository_config_id, an HTTPError with its status code, another error.
CreateReplies ==
  { [kind |-> "ok", repository_config_id |-> "c9"],
    [kind |-> "ok", repository_config_id |-> None],
    [kind |-> "http_error", status_code |-> Conflict],
    [kind |-> "http_error", status_code |-> ServerError],
    [kind |-> "http_error", status_code |-> Unauthorized],
    [kind |-> "error"] }

\* Replies of POST .../jobs.
JobReplies ==
  { [kind |-> "ok", code_scan_job_id |-> "j1"],
    [kind |-> "ok", code_scan_job_id |-> None],
    [kind |-> "error"] }

\* Replies of POST /v1/code-scanning/start-job/{id}.
StartReplies ==
  { [kind |-> "ok", status |-> "RUNNING"],
    [kind |-> "ok", status |-> "PENDING"],
    [kind |-> "ok", status |-> None],
    [kind |-> "error"] }

\* The repository specs a caller may pass: complete ones, and ones lacking
\* organization_id or repo_name.
ModelChoices ==
  { [organization_id |-> "orgA", repo_name |-> "repoA", revision |-> "main"],
    [organization_id |-> "orgA", repo_name |-> "repoB", revision |-> "dev"],
    [organization_id |-> None, repo_name |-> "repoA", revision |-> "main"],
    [organization_id |-> "orgA", repo_name |-> None, revision |-> "main"] }

ModelLists == UNION { [1..n -> ModelChoices] : n \in 0..MaxModels }

\* --------------------------------------------- the configuration text
\* A text is the sequence of its characters.
Blank == " "

\* revision = "main"
Main == <<"m", "a", "i", "n">>

\* a strip() that was left out: the text as it is
NoStrip(s) == s

RECURSIVE LStrip(_)
LStrip(s) == IF s # <<>> /\ Head(s) = Blank THEN LStrip(Tail(s)) ELSE s

RECURSIVE RStrip(_)
RStrip(s) ==
  IF s # <<>> /\ s[Len(s)] = Blank THEN RStrip(SubSeq(s, 1, Len(s) - 1)) ELSE s

\* str.strip(): the text without its leading and trailing blanks
Strip(s) == RStrip(LStrip(s))

\* sep in s
Contains(s, sep) == \E i \in 1..Len(s) : s[i] = sep

FirstIndex(s, sep) ==
  CHOOSE i \in 1..Len(s) : s[i] = sep /\ \A j \in 1..(i - 1) : s[j] # sep

\* s.split(sep, 1)
SplitOnce(s, sep) ==
  IF Contains(s, sep)
  THEN <<SubSeq(s, 1, FirstIndex(s, sep) - 1),
         SubSeq(s, FirstIndex(s, sep) + 1, Len(s))>>
  ELSE <<s>>

\* s.split(sep)
RECURSIVE Split(_, _)
Split(s, sep) ==
  IF Contains(s, sep)
  THEN <<SplitOnce(s, sep)[1]>> \o Split(SplitOnce(s, sep)[2], sep)
  ELSE <<s>>

\* json.loads on a text of brackets, braces, commas, blanks and other
\* characters: the JSON values such a text can spell are the empty object
\* and the arrays of such values; any other text raises JSONDecodeError.
JsonFail == [ok |-> FALSE]
JsonDict == [kind |-> "dict"]
JsonList(items) == [kind |-> "list", items |-> items]
JsonInvalid == [kind |-> "invalid"]

RECURSIVE SkipBlanks(_, _)
SkipBlanks(s, i) == IF i <= Len(s) /\ s[i] = Blank THEN SkipBlanks(s, i + 1) ELSE i

RECURSIVE JsonValue(_, _)
RECURSIVE JsonItems(_, _, _)
\* the value that starts at or after position i, and the position after it
JsonValue(s, i) ==
  LET j == SkipBlanks(s, i)
      k == SkipBlanks(s, j + 1)
  IN
  IF j > Len(s) THEN JsonFail
  ELSE IF s[j] = "{"
  THEN IF k <= Len(s) /\ s[k] = "}"
       THEN [ok |-> TRUE, value |-> JsonDict, next |-> k + 1]
       ELSE JsonFail
  ELSE IF s[j] = "["
  THEN IF k <= Len(s) /\ s[k] = "]"
       THEN [ok |-> TRUE, value |-> JsonList(<<>>), next |-> k + 1]
       ELSE JsonItems(s, k, <<>>)
  ELSE JsonFail

\* the rest of an array whose items so far are acc
JsonItems(s, i, acc) ==
  LET v == JsonValue(s, i)
  IN
  IF ~v.ok THEN JsonFail
  ELSE LET k == SkipBlanks(s, v.next)
       IN
       IF k > Len(s) THEN JsonFail
       ELSE IF s[k] = "]"
       THEN [ok |-> TRUE, value |-> JsonList(Append(acc, v.value)), next |-> k + 1]
       ELSE IF s[k] = ","
       THEN JsonItems(s, k + 1, Append(acc, v.value))
       ELSE JsonFail

json_loads(s) ==
  LET v == JsonValue(s, 1)
  IN
  IF v.ok /\ SkipBlanks(s, v.next) > Len(s) THEN v.value ELSE JsonInvalid

\* Lines 707-711: the dict appended for one item.
Entry(org_id, repo_name, revision) ==
  [organization_id |-> org_id, repo_name |-> repo_name, revision |-> revision]

\* if "/" in item
HasSlash(item) == Contains(item, "/")

\* Lines 692-713: one stripped, non-empty item of the simple format; the
\* entries it adds to models.
parse_item(item) ==
  IF HasSlash(item)
  THEN LET parts == SplitOnce(item, "/")
           org_id == Strip(parts[1])
           repo_name == Strip(parts[2])
       IN
       IF Contains(repo_name, "@")
       THEN <<Entry(org_id,
                    Strip(SplitOnce(repo_name, "@")[1]),
                    Strip(SplitOnce(repo_name, "@")[2]))>>
       ELSE <<Entry(org_id, repo_name, Main)>>
  ELSE <<>>

\* Lines 687-713: the for loop over models_str.split(",").
RECURSIVE parse_items(_)
parse_items(items) ==
  IF items = <<>> THEN <<>>
  ELSE (IF Strip(Head(items)) = <<>> THEN <<>> ELSE parse_item(Strip(Head(items))))
       \o parse_items(Tail(items))

\* a parser that falls back to a repository of its own when nothing is
\* configured
DefaultModels == <<Entry(<<"a">>, <<"b">>, Main)>>

\* Line 671: return []
NoModels == <<>>

\* Lines 669-714.
parse_huggingface_models_from_config(models_str) ==
  IF models_str = <<>> THEN NoModels
  ELSE LET parsed == json_loads(models_str)
       IN
       IF parsed.kind = "list" THEN parsed.items
       ELSE IF parsed.kind = "dict" THEN <<parsed>>
       ELSE parse_items(Split(models_str, ","))

VARIABLES
  \* --- onboard_huggingface_models
  models,               \* the list of repository specs passed in
  project_id,           \* the project id passed in
  pc,                   \* position in the function
  idx,                  \* index of the spec the for loop is at
  all_resource_ids,
  repo_config_id,
  code_scan_job_id,
  \* --- _poll_via_graphql
  elapsed,              \* time.time() - start_time at the top of the loop
  poll_count,
  last_resource_count,
  stable_count,
  poll_result,          \* the returned tuple, once returned
  \* --- history (not program state)
  calls,                \* remote calls issued for the current spec, in order
  lastResp,             \* reply to the latest remote call outside the poll loop
  obtained,             \* per finished spec, the ids of the read that ended it
  observed,             \* PollSpec: per poll attempt the count seen, "error" or "missing"
  \* --- RaceSpec: the registration service and two callers of
  \*     _create_repository_config
  registry,             \* the service's registrations, in lookup order
  cpc,                  \* per caller, its position in the function
  cret,                 \* per caller, the value returned
  csteps,               \* history: per caller, the remote calls it issued
  \* --- ParseSpec: parse_huggingface_models_from_config
  models_str,           \* config.HUGGINGFACE_MODELS_TO_ONBOARD
  tokens                \* history: the items the text was written from

pollVars == <<elapsed, poll_count, last_resource_count, stable_count, poll_result>>
driverVars == <<models, project_id, pc, idx, all_resource_ids, repo_config_id,
                code_scan_job_id>>
histVars == <<calls, lastResp, obtained>>
vars == <<models, project_id, pc, idx, all_resource_ids, repo_config_id,
          code_scan_job_id, elapsed, poll_count, last_resource_count,
          stable_count, poll_result, calls, lastResp, obtained, observed,
          registry, cpc, cret, csteps, models_str, tokens>>
raceVars == <<registry, cpc, cret, csteps>>
parseVars == <<models_str, tokens>>

\* The two callers of RaceSpec.
Callers == {"a", "b"}

\* Outside RaceSpec there is no service state and no caller.
RaceIdle ==
  /\ registry = <<>>
  /\ cpc = [c \in Callers |-> "idle"]
  /\ cret = [c \in Callers |-> None]
  /\ csteps = [c \in Callers |-> <<>>]

\* Outside ParseSpec there is no configuration text.
ParseIdle ==
  /\ models_str = <<>>
  /\ tokens = <<>>

Running == [returned |-> FALSE]
Returned(success, ids) == [returned |-> TRUE, success |-> success, resource_ids |-> ids]

\* a deadline check that lets a poll start at the deadline itself
TimedOutLate(e) == e > timeout_secs

\* if elapsed >= timeout_secs
TimedOut(e) == e >= timeout_secs

\* Lines 379-382: the deadline check at the top of the loop.
PollTimeout ==
  /\ poll_result = Running
  /\ TimedOut(elapsed)
  /\ poll_result' = Returned(FALSE, <<>>)
  /\ UNCHANGED <<elapsed, poll_count, last_resource_count, stable_count>>

\* if current_count == last_resource_count
SameCount(current_count, last) == current_count = last

\* if stable_count >= 3
Stable(n) == n >= StableThreshold

\* a handler that gives the scan up when the poll query raises
GivesUpOnError == Returned(FALSE, <<>>)

\* Lines 430-433: except Exception: print, sleep, continue. The poller is
\* still running after a poll query that raised.
AfterPollError == Running

\* a guard that also takes an empty resource list for a reading
HasResourcesOrNone(current_count) == current_count >= 0

\* if current_count > 0
HasResources(current_count) == current_count > 0

\* Lines 384-433: one iteration that passed the deadline check, with the
\* reply of run_graphql and the time the iteration takes.
PollIteration(rid, reply, secs) ==
  /\ poll_result = Running
  /\ ~TimedOut(elapsed)
  /\ poll_count' = poll_count + 1
  /\ LET k == IF reply.ok THEN FindById(reply.repositories, rid) ELSE 0
     IN
     IF ~reply.ok
     THEN \* except Exception: sleep and poll again
          /\ elapsed' = elapsed + secs
          /\ poll_result' = AfterPollError
          /\ UNCHANGED <<last_resource_count, stable_count>>
     ELSE IF k = 0
     THEN \* for-else: the registration is not in the reply; sleep
          /\ elapsed' = elapsed + secs
          /\ UNCHANGED <<last_resource_count, stable_count, poll_result>>
     ELSE LET resource_instances == reply.repositories[k].resourceInstances
              current_count == Len(resource_instances)
          IN
          IF HasResources(current_count)
          THEN IF SameCount(current_count, last_resource_count)
               THEN /\ stable_count' = stable_count + 1
                    /\ IF Stable(stable_count + 1)
                       THEN /\ poll_result' = Returned(TRUE, IdsOf(resource_instances))
                            /\ UNCHANGED <<elapsed, last_resource_count>>
                       ELSE /\ last_resource_count' = current_count
                            /\ elapsed' = elapsed + secs
                            /\ UNCHANGED poll_result
               ELSE /\ stable_count' = 0
                    /\ last_resource_count' = current_count
                    /\ elapsed' = elapsed + secs
                    /\ UNCHANGED poll_result
          ELSE /\ elapsed' = elapsed + secs
               /\ UNCHANGED <<last_resource_count, stable_count, poll_result>>

\* ------------------------------------------- helpers of the batch driver
\* repo.get("organization") == organization and repo.get("name") == repo_name
\* and repo.get("vcs") == "huggingface_hub"
MatchesKey(repo, organization, repo_name) ==
  /\ repo.organization = organization
  /\ repo.name = repo_name
  /\ repo.vcs = "huggingface_hub"

\* an acceptance rule without the comparison of the two project ids
AcceptsProjectless(repo_project_id, wanted) ==
  \/ wanted = None
  \/ repo_project_id = None

\* an acceptance rule that insists on the wanted project
AcceptsSameProject(repo_project_id, wanted) ==
  \/ wanted = None
  \/ repo_project_id = wanted

\* if project_id is None or repo_project_id == project_id or repo_project_id is None
AcceptsProject(repo_project_id, wanted) ==
  \/ wanted = None
  \/ repo_project_id = wanted
  \/ repo_project_id = None

\* a lookup that answers a failed query with the id it resolved last
find_cached_repository(reply, organization, repo_name, wanted) ==
  IF ~reply.ok THEN "c1"
  ELSE LET repositories == reply.repositories
           hits == { i \in 1..Len(repositories) :
                       /\ MatchesKey(repositories[i], organization, repo_name)
                       /\ AcceptsProject(repositories[i].project, wanted) }
       IN  IF hits = {} THEN None ELSE repositories[Min(hits)].id

\* _find_existing_repository: the id of the first registration in the reply
\* that matches the key and whose project is acceptable; None when there is
\* none or the query raised.
find_existing_repository(reply, organization, repo_name, wanted) ==
  IF ~reply.ok THEN None
  ELSE LET repositories == reply.repositories
           hits == { i \in 1..Len(repositories) :
                       /\ MatchesKey(repositories[i], organization, repo_name)
                       /\ AcceptsProject(repositories[i].project, wanted) }
       IN  IF hits = {} THEN None ELSE repositories[Min(hits)].id

\* a read that answers a failed query with ids it saw before
query_cached_resources(reply, rid) ==
  IF ~reply.ok THEN <<"r1">>
  ELSE LET k == FindById(reply.repositories, rid)
       IN  IF k = 0 THEN <<>> ELSE IdsOf(reply.repositories[k].resourceInstances)

\* _query_discovered_resources: the ids of the registration's resource
\* instances; [] when the query raised, the registration is not in the
\* reply, or it has no instances.
query_discovered_resources(reply, rid) ==
  IF ~reply.ok THEN <<>>
  ELSE LET k == FindById(reply.repositories, rid)
       IN  IF k = 0 THEN <<>> ELSE IdsOf(reply.repositories[k].resourceInstances)

\* a start check satisfied by any reply that got through
start_scan_job_accepted(reply) == reply.kind = "ok"

\* a start check that also takes a job that is still pending for started
start_scan_job_pending(reply) ==
  reply.kind = "ok" /\ reply.status \in {"RUNNING", "PENDING"}

\* _start_scan_job: True only for a reply whose status is RUNNING.
start_scan_job(reply) == reply.kind = "ok" /\ reply.status = "RUNNING"

\* a conflict check that looks for the wrong status code
IsBadRequest(status_code) == status_code = 400

\* a handler that takes every HTTP failure for a conflict
IsHttpFailure(status_code) == status_code >= 400

\* if e.response.status_code == 409
IsConflict(status_code) == status_code = Conflict

\* Lines 155-189: what _create_repository_config makes of the reply to its
\* create call: "created" (the id of the body is returned), "conflict" (the
\* lookup is repeated), "failed" (None is returned).
create_outcome(reply) ==
  IF reply.kind = "ok"
  THEN IF reply.repository_config_id # None THEN "created" ELSE "failed"
  ELSE IF reply.kind = "http_error" /\ IsConflict(reply.status_code)
       THEN "conflict"
       ELSE "failed"

\* a pre-check that never finds a repository onboarded
NeverOnboarded(existing_resource_ids) == FALSE

\* if existing_resource_ids
AlreadyOnboarded(existing_resource_ids) == existing_resource_ids # <<>>

\* if success and resource_ids
AddsPolled(success, resource_ids) == success /\ resource_ids # <<>>

\* a final read after every poll that added nothing
TriesFinalReadAlways(success) == TRUE

\* elif not success
TriesFinalRead(success) == ~success

\* if not organization or not repo_name
Incomplete(model) == model.organization_id = None \/ model.repo_name = None

\* an accumulation that leaves out the ids it already has
ExtendDistinct(all, ids) ==
  all \o SelectSeq(ids, LAMBDA x : \A i \in 1..Len(all) : all[i] # x)

\* all_resource_ids.extend(ids)
Extend(all, ids) == all \o ids

\* ================================================================ PollSpec
\* One call of _poll_via_graphql for registration "c1".

\* What one poll attempt saw: the count of a reply that holds the
\* registration, or that the query failed, or that the registration was
\* missing from the reply.
Outcome(rid, reply) ==
  IF ~reply.ok THEN [kind |-> "error", count |-> 0]
  ELSE IF FindById(reply.repositories, rid) = 0 THEN [kind |-> "missing", count |-> 0]
  ELSE [kind |-> "count",
        count |-> Len(reply.repositories[FindById(reply.repositories, rid)].resourceInstances)]

PollInit ==
  /\ models = <<>>
  /\ project_id = None
  /\ pc = "poller"
  /\ idx = 1
  /\ all_resource_ids = <<>>
  /\ repo_config_id = "c1"
  /\ code_scan_job_id = None
  \* lines 369-372
  /\ elapsed = 0
  /\ poll_count = 0
  /\ last_resource_count = 0
  /\ stable_count = 0
  /\ poll_result = Running
  /\ calls = <<>>
  /\ lastResp = [kind |-> "none"]
  /\ obtained = <<>>
  /\ observed = <<>>
  /\ RaceIdle
  /\ ParseIdle

PollerTimesOut ==
  /\ pc = "poller"
  /\ PollTimeout
  /\ UNCHANGED <<driverVars, histVars, observed, raceVars, parseVars>>

PollerPolls ==
  /\ pc = "poller"
  /\ \E reply \in ResourceReplies(repo_config_id), secs \in IterationSecs :
       /\ PollIteration(repo_config_id, reply, secs)
       /\ observed' = Append(observed, Outcome(repo_config_id, reply))
  /\ UNCHANGED <<driverVars, histVars, raceVars, parseVars>>

PollNext == PollerTimesOut \/ PollerPolls

PollSpec == PollInit /\ [][PollNext]_vars

\* ------------------------------------------------------- claims, PollSpec
\* The latest n poll attempts.
LastObserved(n) == SubSeq(observed, Len(observed) - n + 1, Len(observed))

\* The latest n poll attempts all found the registration and saw the same
\* non-zero count.
RunOfEqualCounts(n) ==
  /\ Len(observed) >= n
  /\ \A i \in 1..n : /\ LastObserved(n)[i].kind = "count"
                     /\ LastObserved(n)[i].count > 0
                     /\ LastObserved(n)[i].count = LastObserved(n)[1].count

Converged == poll_result.returned /\ poll_result.success
TimedOutResult == poll_result.returned /\ ~poll_result.success

\* C1 (as claimed): convergence is declared at the poll that completes the
\* first run of 3 consecutive identical non-zero resource counts (for the
\* counts 0,0,2,2,2,... at the third 2).
C1_ConvergesOnThirdEqualCount ==
  RunOfEqualCounts(3) => Converged

PollStep == poll_count' = poll_count + 1 /\ Len(observed') = Len(observed) + 1
Saw(kind) == observed'[Len(observed')].kind = kind

\* C11: a poll query that raises never ends the poller: it neither returns
\* nor changes the streak, it sleeps at least the poll interval, the very
\* time a poll that succeeded without converging takes, and while the
\* deadline has not passed the next poll can start.
C11_PollFailuresSwallowed ==
  /\ [][(PollStep /\ Saw("error"))
          => /\ poll_result' = Running
             /\ stable_count' = stable_count
             /\ last_resource_count' = last_resource_count
             /\ elapsed' >= elapsed + poll_interval_secs
             /\ elapsed' - elapsed \in IterationSecs]_vars
  /\ [][(PollStep /\ ~Saw("error") /\ poll_result' = Running)
          => elapsed' - elapsed \in IterationSecs]_vars
  /\ []((pc = "poller" /\ poll_result = Running /\ elapsed < timeout_secs)
          => ENABLED PollerPolls)

\* C11 witness: the poller converged after a poll query had failed.
C11_Witness ==
  /\ pc = "poller"
  /\ Converged
  /\ \E i \in 1..Len(observed) : observed[i].kind = "error"

\* Every reading so far that found the registration saw no resource.
AllCountsZero ==
  \A i \in 1..Len(observed) : observed[i].kind = "count" => observed[i].count = 0

\* C12: a run whose readings are all 0 never converges; when it returns,
\* it returns (False, []) and the deadline has elapsed.
C12_AllZeroNeverConverges ==
  (poll_result.returned /\ AllCountsZero)
    => /\ poll_result = Returned(FALSE, <<>>)
       /\ elapsed >= timeout_secs

\* C12 witness: the poller returned after readings that all found the
\* registration with a count of 0, three of them and more.
C12_Witness ==
  /\ pc = "poller"
  /\ poll_result.returned
  /\ Len(observed) >= StableThreshold + 1
  /\ \A i \in 1..Len(observed) : observed[i] = [kind |-> "count", count |-> 0]

\* The poller as the one thread that runs it: the loop of lines 376-433
\* keeps taking its next step until it returns.
PollFairSpec == PollSpec /\ WF_vars(PollNext)

\* C13: the poller always terminates: it returns after at most
\* timeout_secs / poll_interval_secs polls, every iteration advancing the
\* clock by the poll interval or more, and it starts no poll once the
\* elapsed time has reached the deadline.
C13_PollerTerminates ==
  /\ <>(poll_result.returned)
  /\ [](poll_count * poll_interval_secs <= timeout_secs)
  /\ [][PollStep => elapsed < timeout_secs]_vars
  /\ [][poll_result.returned => UNCHANGED pollVars]_vars

\* C13 witness: the poller returned at the deadline after as many polls as
\* the deadline leaves room for.
C13_Witness ==
  /\ pc = "poller"
  /\ poll_result = Returned(FALSE, <<>>)
  /\ poll_count * poll_interval_secs = timeout_secs

\* The count the poll attempt of this step saw, and the count the attempt
\* before it saw.
CurrentCount == observed'[Len(observed')].count
PreviousWasCount == observed # <<>> /\ observed[Len(observed)].kind = "count"
PreviousCount == observed[Len(observed)].count

\* C17 (as claimed): after a poll that found the registration, the streak
\* is incremented only if the count is non-zero and equals the last count;
\* and whenever the count differs from the count of the poll before, a
\* change to 0 included, the streak is reset to 0 and the last count is set
\* to the count.
C17_StreakMaintenance ==
  /\ [][(PollStep /\ Saw("count") /\ stable_count' = stable_count + 1)
          => /\ CurrentCount > 0
             /\ CurrentCount = last_resource_count]_vars
  /\ [][(PollStep /\ Saw("count") /\ PreviousWasCount
           /\ CurrentCount # PreviousCount)
          => /\ stable_count' = 0
             /\ last_resource_count' = CurrentCount]_vars

\* C18 (as claimed): whenever the poller reports convergence, the three
\* latest poll attempts all succeeded, found the registration and saw the
\* same non-zero count.
C18_ConvergedOnConsecutiveRun ==
  Converged => RunOfEqualCounts(StableThreshold)

\* ==================================================================== Spec
\* One call of onboard_huggingface_models(jwt, models, project_id).

Init ==
  /\ models \in ModelLists
  /\ project_id \in {"p1", None}
  /\ pc = "entry"
  /\ idx = 1
  /\ all_resource_ids = <<>>
  /\ repo_config_id = None
  /\ code_scan_job_id = None
  /\ elapsed = 0
  /\ poll_count = 0
  /\ last_resource_count = 0
  /\ stable_count = 0
  /\ poll_result = Running
  /\ calls = <<>>
  /\ lastResp = [kind |-> "none"]
  /\ obtained = <<>>
  /\ observed = <<>>
  /\ RaceIdle
  /\ ParseIdle

\* a failure that ends the loop instead of continuing it
Break(i) == Len(models) + 1

\* continue after a failed step: the for loop goes on with the next spec
Continue(i) == i + 1

\* The spec is over (a continue, or the end of the loop body) with ids
\* added to the result; got is what the deciding read returned.
EndOfModel(ids, got, next) ==
  /\ all_resource_ids' = Extend(all_resource_ids, ids)
  /\ obtained' = Append(obtained, got)
  /\ idx' = next
  /\ pc' = "loop"

\* A step of the spec failed: continue without ids (lines 563, 581, 606, 616).
SkipModel == EndOfModel(<<>>, <<>>, Continue(idx))

\* History: the ids a reply holds for registration rid, in the reply's order.
IdsInReply(reply, rid) ==
  IF ~reply.ok \/ FindById(reply.repositories, rid) = 0 THEN <<>>
  ELSE IdsOf(reply.repositories[FindById(reply.repositories, rid)].resourceInstances)

\* Lines 541-543: if not models: return []
ReturnNothing ==
  /\ pc = "entry"
  /\ models = <<>>
  /\ pc' = "done"
  /\ UNCHANGED <<models, project_id, idx, all_resource_ids, repo_config_id,
                 code_scan_job_id, pollVars, histVars, observed, raceVars, parseVars>>

\* Lines 545-553.
EnterLoop ==
  /\ pc = "entry"
  /\ models # <<>>
  /\ pc' = "loop"
  /\ UNCHANGED <<models, project_id, idx, all_resource_ids, repo_config_id,
                 code_scan_job_id, pollVars, histVars, observed, raceVars, parseVars>>

\* Lines 646-653: the loop is exhausted, return all_resource_ids.
ReturnAll ==
  /\ pc = "loop"
  /\ idx > Len(models)
  /\ pc' = "done"
  /\ UNCHANGED <<models, project_id, idx, all_resource_ids, repo_config_id,
                 code_scan_job_id, pollVars, histVars, observed, raceVars, parseVars>>

\* Lines 555-563: a spec without organization_id or repo_name is skipped.
SkipIncomplete ==
  /\ pc = "loop"
  /\ idx <= Len(models)
  /\ Incomplete(models[idx])
  /\ SkipModel
  /\ calls' = <<>>
  /\ UNCHANGED <<models, project_id, repo_config_id, code_scan_job_id, pollVars,
                 lastResp, observed, raceVars, parseVars>>

\* Lines 555-570: a complete spec; its processing starts.
BeginModel ==
  /\ pc = "loop"
  /\ idx <= Len(models)
  /\ ~Incomplete(models[idx])
  /\ pc' = "lookup"
  /\ repo_config_id' = None
  /\ code_scan_job_id' = None
  /\ calls' = <<>>
  /\ lastResp' = [kind |-> "none"]
  /\ elapsed' = 0
  /\ poll_count' = 0
  /\ last_resource_count' = 0
  /\ stable_count' = 0
  /\ poll_result' = Running
  /\ UNCHANGED <<models, project_id, idx, all_resource_ids, obtained, observed,
                 raceVars, parseVars>>

\* Lines 122-133 (called at 571): the proactive lookup.
FindExisting ==
  /\ pc = "lookup"
  /\ \E reply \in LookupReplies(models[idx].organization_id, models[idx].repo_name) :
       LET found == find_existing_repository(reply, models[idx].organization_id,
                                             models[idx].repo_name, project_id)
       IN  /\ lastResp' = reply
           /\ calls' = Append(calls, "lookup")
           /\ IF found # None
              THEN /\ repo_config_id' = found
                   /\ pc' = "precheck"
              ELSE /\ pc' = "create"
                   /\ UNCHANGED repo_config_id
  /\ UNCHANGED <<models, project_id, idx, all_resource_ids, code_scan_job_id,
                 pollVars, obtained, observed, raceVars, parseVars>>

\* Lines 135-189 up to the lookup of the 409 handler: the create call.
CreateConfig ==
  /\ pc = "create"
  /\ \E reply \in CreateReplies :
       /\ lastResp' = reply
       /\ calls' = Append(calls, "create")
       /\ IF create_outcome(reply) = "created"
          THEN /\ repo_config_id' = reply.repository_config_id
               /\ pc' = "precheck"
               /\ UNCHANGED <<idx, all_resource_ids, obtained>>
          ELSE IF create_outcome(reply) = "conflict"
          THEN /\ pc' = "conflict"
               /\ UNCHANGED <<repo_config_id, idx, all_resource_ids, obtained>>
          ELSE \* no id in the body, another status, another exception:
               \* None is returned, and the driver continues (579-581)
               /\ SkipModel
               /\ UNCHANGED repo_config_id
  /\ UNCHANGED <<models, project_id, code_scan_job_id, pollVars, observed, raceVars, parseVars>>

\* a 409 handler that tries the create call again when the repeated
\* lookup found nothing
CreateAgain ==
  /\ pc' = "create"
  /\ UNCHANGED <<idx, all_resource_ids, obtained>>

\* Lines 181-182: the repeated lookup found nothing: return None, and the
\* driver continues with the next spec (579-581).
UnresolvedConflict == SkipModel

\* Lines 167-182: the lookup repeated after a 409.
FindAfterConflict ==
  /\ pc = "conflict"
  /\ \E reply \in LookupReplies(models[idx].organization_id, models[idx].repo_name) :
       LET found == find_existing_repository(reply, models[idx].organization_id,
                                             models[idx].repo_name, project_id)
       IN  /\ lastResp' = reply
           /\ calls' = Append(calls, "lookup")
           /\ IF found # None
              THEN /\ repo_config_id' = found
                   /\ pc' = "precheck"
                   /\ UNCHANGED <<idx, all_resource_ids, obtained>>
              ELSE /\ UnresolvedConflict
                   /\ UNCHANGED repo_config_id
  /\ UNCHANGED <<models, project_id, code_scan_job_id, pollVars, observed, raceVars, parseVars>>

\* Lines 627-644: what the driver does with the poller's tuple: add the ids
\* of a converged poller, go for a final read after a timeout, give up on a
\* converged poller without ids.
AfterPoll(success, resource_ids, got) ==
  IF AddsPolled(success, resource_ids)
  THEN EndOfModel(resource_ids, got, idx + 1)
  ELSE IF TriesFinalRead(success)
       THEN /\ pc' = "final"
            /\ UNCHANGED <<idx, all_resource_ids, obtained>>
       ELSE EndOfModel(<<>>, got, idx + 1)

\* Lines 583-596: the one-shot read before launching a job.
PreCheck ==
  /\ pc = "precheck"
  /\ \E reply \in ResourceReplies(repo_config_id) :
       LET existing_resource_ids == query_discovered_resources(reply, repo_config_id)
       IN  /\ lastResp' = reply
           /\ calls' = Append(calls, "read")
           /\ IF AlreadyOnboarded(existing_resource_ids)
              THEN EndOfModel(existing_resource_ids, IdsInReply(reply, repo_config_id),
                              idx + 1)
              ELSE /\ pc' = "job"
                   /\ UNCHANGED <<idx, all_resource_ids, obtained>>
  /\ UNCHANGED <<models, project_id, repo_config_id, code_scan_job_id, pollVars,
                 observed, raceVars, parseVars>>

\* Lines 598-606 (_create_scan_job, 242-264).
CreateJob ==
  /\ pc = "job"
  /\ \E reply \in JobReplies :
       /\ lastResp' = reply
       /\ calls' = Append(calls, "job")
       /\ IF reply.kind = "ok" /\ reply.code_scan_job_id # None
          THEN /\ code_scan_job_id' = reply.code_scan_job_id
               /\ pc' = "start"
               /\ UNCHANGED <<idx, all_resource_ids, obtained>>
          ELSE /\ SkipModel
               /\ UNCHANGED code_scan_job_id
  /\ UNCHANGED <<models, project_id, repo_config_id, pollVars, observed, raceVars, parseVars>>

\* Lines 608-616 (_start_scan_job, 291-315), then lines 369-372 of the poller.
StartJob ==
  /\ pc = "start"
  /\ \E reply \in StartReplies :
       /\ lastResp' = reply
       /\ calls' = Append(calls, "start")
       /\ IF start_scan_job(reply)
          THEN /\ pc' = "poll"
               /\ UNCHANGED <<idx, all_resource_ids, obtained>>
          ELSE SkipModel
  /\ UNCHANGED <<models, project_id, repo_config_id, code_scan_job_id, pollVars,
                 observed, raceVars, parseVars>>

\* Lines 376-433 and 627-629, 643-644: one poll; a converged poller returns
\* to the driver, which adds the ids it got (if any) and ends the spec.
Poll ==
  /\ pc = "poll"
  /\ \E reply \in ResourceReplies(repo_config_id), secs \in IterationSecs :
       /\ PollIteration(repo_config_id, reply, secs)
       /\ calls' = Append(calls, "poll")
       /\ IF poll_result'.returned
          THEN AfterPoll(poll_result'.success, poll_result'.resource_ids,
                         IdsInReply(reply, repo_config_id))
          ELSE UNCHANGED <<pc, idx, all_resource_ids, obtained>>
  /\ UNCHANGED <<models, project_id, repo_config_id, code_scan_job_id, lastResp,
                 observed, raceVars, parseVars>>

\* Lines 379-382 and 627-632: the deadline passed, the poller returns
\* (False, []) to the driver.
PollDeadline ==
  /\ pc = "poll"
  /\ PollTimeout
  /\ AfterPoll(poll_result'.success, poll_result'.resource_ids, <<>>)
  /\ UNCHANGED <<models, project_id, repo_config_id, code_scan_job_id, calls,
                 lastResp, observed, raceVars, parseVars>>

\* Lines 633-642: the read after a timeout.
FinalRead ==
  /\ pc = "final"
  /\ \E reply \in ResourceReplies(repo_config_id) :
       /\ lastResp' = reply
       /\ calls' = Append(calls, "read")
       /\ EndOfModel(query_discovered_resources(reply, repo_config_id),
                     IdsInReply(reply, repo_config_id), idx + 1)
  /\ UNCHANGED <<models, project_id, repo_config_id, code_scan_job_id, pollVars,
                 observed, raceVars, parseVars>>

Next ==
  \/ ReturnNothing
  \/ EnterLoop
  \/ ReturnAll
  \/ SkipIncomplete
  \/ BeginModel
  \/ FindExisting
  \/ CreateConfig
  \/ FindAfterConflict
  \/ PreCheck
  \/ CreateJob
  \/ StartJob
  \/ Poll
  \/ PollDeadline
  \/ FinalRead

Spec == Init /\ [][Next]_vars

\* ----------------------------------------------------------- claims, Spec
Range(f) == { f[i] : i \in DOMAIN f }

RECURSIVE Flatten(_)
Flatten(lists) ==
  IF lists = <<>> THEN <<>> ELSE Head(lists) \o Flatten(Tail(lists))

RECURSIVE SumLen(_)
SumLen(lists) ==
  IF lists = <<>> THEN 0 ELSE Len(Head(lists)) + SumLen(Tail(lists))

\* The spec the loop is at.
Current == models[idx]

\* The registrations of a lookup reply that carry the current spec's key
\* on the HuggingFace hub.
KeyMatches(reply) ==
  IF ~reply.ok THEN {}
  ELSE { r \in Range(reply.repositories) :
           /\ r.organization = Current.organization_id
           /\ r.name = Current.repo_name
           /\ r.vcs = "huggingface_hub" }

\* Those without project association.
ProjectlessMatches(reply) == { r \in KeyMatches(reply) : r.project = None }

\* Those the caller can use: without project, under the caller's project,
\* or any when the caller named no project.
UsableMatches(reply) ==
  { r \in KeyMatches(reply) :
      r.project = None \/ r.project = project_id \/ project_id = None }

\* The step is a remote call of the driver outside the poll loop.
Called(op) == calls' = Append(calls, op)

\* C3: a failing step of one spec never aborts the batch. The loop index
\* moves by exactly one spec at a time whatever the spec's outcome, the
\* function returns only after every spec was gone through, and the ids
\* every spec obtained are in the returned list.
C3_FailureIsolation ==
  /\ pc \in {"loop", "done"} => Len(obtained) = idx - 1
  /\ pc \notin {"entry", "loop", "done"} => /\ idx <= Len(models)
                                            /\ Len(obtained) = idx - 1
  /\ pc = "done" =>
       /\ Len(obtained) = Len(models)
       /\ \A i \in 1..Len(obtained) :
            Range(obtained[i]) \subseteq Range(all_resource_ids)

\* C3 witness: the first spec lacks its repo_name, the second is valid, and
\* the batch returned the second's resources.
C3_Witness ==
  /\ pc = "done"
  /\ Len(models) = 2
  /\ models[1].repo_name = None
  /\ obtained = << <<>>, <<"r2", "r1">> >>
  /\ all_resource_ids = <<"r2", "r1">>

\* C4: when the one-shot read before launching returns at least one id, the
\* driver appends exactly those ids to the result and is done with the
\* spec: the read is the last call for it, no job is created or started
\* and nothing is polled.
C4_PreCheckSkipsScan ==
  [][ (pc = "precheck" /\ Called("read")
         /\ IdsInReply(lastResp', repo_config_id) # <<>>)
      => /\ all_resource_ids' =
              all_resource_ids \o IdsInReply(lastResp', repo_config_id)
         /\ pc' = "loop"
         /\ idx' = idx + 1
         /\ Range(calls') \cap {"job", "start", "poll"} = {} ]_vars

\* C4 witness: a spec ended by its pre-check read, with ids.
C4_Witness ==
  /\ pc = "loop"
  /\ calls = <<"lookup", "read">>
  /\ IdsInReply(lastResp, repo_config_id) = <<"r2", "r1">>
  /\ obtained[Len(obtained)] = <<"r2", "r1">>

\* C5: when the first lookup found nothing and the create call answers 409,
\* the lookup is repeated; when the repeated lookup holds a usable
\* registration of the key, its id is the registration id the driver goes
\* on with (the spec is not given up).
C5_ConflictRecovery ==
  [][ /\ (pc = "create" /\ Called("create")
            /\ lastResp'.kind = "http_error" /\ lastResp'.status_code = Conflict)
         => (pc' = "conflict" /\ idx' = idx)
      /\ (pc = "conflict" /\ Called("lookup")
            /\ UsableMatches(lastResp') # {})
         => /\ \E r \in UsableMatches(lastResp') : repo_config_id' = r.id
            /\ pc' = "precheck"
            /\ idx' = idx ]_vars

\* C5 witness: registration resolved by the lookup that followed a 409.
C5_Witness ==
  /\ pc = "precheck"
  /\ calls = <<"lookup", "create", "lookup">>
  /\ repo_config_id = "c1"

\* C7: a lookup reply that holds a registration of the key without project
\* association resolves the registration to that registration's id, also
\* for a caller that named a project; after the first lookup no create
\* call follows.
C7_ProjectlessIsReused ==
  [][ (pc \in {"lookup", "conflict"} /\ Called("lookup")
         /\ ProjectlessMatches(lastResp') # {})
      => /\ \E r \in ProjectlessMatches(lastResp') : repo_config_id' = r.id
         /\ pc' = "precheck"
         /\ (pc = "lookup" => "create" \notin Range(calls')) ]_vars

\* C7 witness: the caller named project p1, the reply held the projectless
\* registration, and its id was taken without a create call.
C7_Witness ==
  /\ project_id = "p1"
  /\ pc = "precheck"
  /\ calls = <<"lookup">>
  /\ ProjectlessMatches(lastResp) # {}
  /\ repo_config_id = "c1"

\* C8: the start call counts as a success exactly when it returned a body
\* whose status is RUNNING; after any other reply the driver ends the spec
\* without ids, and it polls only behind a RUNNING reply.
C8_StartNeedsRunning ==
  /\ [][ (pc = "start" /\ Called("start"))
         => /\ (pc' = "poll") <=>
                 (lastResp'.kind = "ok" /\ lastResp'.status = "RUNNING")
            /\ pc' # "poll" => /\ pc' = "loop"
                               /\ idx' = idx + 1
                               /\ all_resource_ids' = all_resource_ids ]_vars
  /\ [](pc = "poll" => lastResp = [kind |-> "ok", status |-> "RUNNING"])
  /\ []("poll" \in Range(calls) =>
          \E i \in 1..(Len(calls) - 1) : calls[i] = "start" /\ calls[i + 1] = "poll")

\* C8 witness: the start call got through but reported PENDING, and the
\* spec ended there.
C8_Witness ==
  /\ pc = "loop"
  /\ calls # <<>>
  /\ calls[Len(calls)] = "start"
  /\ lastResp = [kind |-> "ok", status |-> "PENDING"]

\* Number of reads issued after polling began.
ReadsAfterPoll ==
  Cardinality({ i \in 1..Len(calls) :
                  calls[i] = "read" /\ \E j \in 1..(i - 1) : calls[j] = "poll" })

\* C9: a poller that converged (with or without ids) is followed by no
\* read; a poller that timed out is followed by exactly one read, whose ids
\* are added to the result.
C9_LastChanceRead ==
  /\ [](ReadsAfterPoll <= 1)
  /\ []((pc = "loop" /\ "poll" \in Range(calls))
          => ReadsAfterPoll = IF poll_result.success THEN 0 ELSE 1)
  /\ [](pc = "final" => poll_result = Returned(FALSE, <<>>) /\ ReadsAfterPoll = 0)
  /\ [][ pc = "final" /\ pc' # "final"
         => /\ Called("read")
            /\ pc' = "loop"
            /\ all_resource_ids' =
                 all_resource_ids \o IdsInReply(lastResp', repo_config_id) ]_vars
  /\ [][ (pc = "poll" /\ poll_result'.returned)
         => pc' = IF poll_result'.success THEN "loop" ELSE "final" ]_vars

\* C9 witness: the poller timed out and the one read after it brought ids.
C9_Witness ==
  /\ pc = "loop"
  /\ poll_result = Returned(FALSE, <<>>)
  /\ ReadsAfterPoll = 1
  /\ obtained[Len(obtained)] = <<"r1">>

\* C9 second case reached as well: converged without ids, no read after.
C9_ConvergedWithoutIds ==
  /\ pc = "loop"
  /\ poll_result = Returned(TRUE, <<>>)
  /\ ReadsAfterPoll = 0

\* C10: the result is the concatenation, spec by spec in input order, of
\* the id lists the specs obtained, each in the order of its read; nothing
\* is dropped or reordered, so its length is the sum of their lengths.
C10_ResultIsConcatenation ==
  /\ all_resource_ids = Flatten(obtained)
  /\ Len(all_resource_ids) = SumLen(obtained)

\* C10 witness: two specs brought overlapping ids; the duplicate is kept
\* and the order is that of the specs.
C10_Witness ==
  /\ pc = "done"
  /\ obtained = << <<"r2", "r1">>, <<"r1">> >>
  /\ all_resource_ids = <<"r2", "r1", "r1">>

\* How often the remote call op was issued for the current spec.
Issued(op) == Cardinality({ i \in 1..Len(calls) : calls[i] = op })

\* C20: when the create call answered 409 and the repeated lookup holds no
\* usable registration, the spec is given up without an id and without
\* another create call; and resolving the registration of one spec issues
\* at most one create call and at most two lookups.
C20_BoundedConflictRetry ==
  /\ [](Issued("create") <= 1 /\ Issued("lookup") <= 2)
  /\ [][(pc = "conflict" /\ Called("lookup") /\ UsableMatches(lastResp') = {})
          => /\ pc' = "loop"
             /\ idx' = idx + 1
             /\ repo_config_id' = None
             /\ all_resource_ids' = all_resource_ids
             /\ calls' = <<"lookup", "create", "lookup">>]_vars

\* C20 witness: the spec was given up after lookup, create (409) and a
\* repeated lookup that held the key under another project only.
C20_Witness ==
  /\ pc = "loop"
  /\ idx = 2
  /\ project_id = "p1"
  /\ calls = <<"lookup", "create", "lookup">>
  /\ lastResp.ok
  /\ \E i \in 1..Len(lastResp.repositories) :
       lastResp.repositories[i] = Match(models[1].organization_id, models[1].repo_name, "p2")
  /\ repo_config_id = None
  /\ obtained[Len(obtained)] = <<>>

\* The reply to the create call is a failure other than a 409: another
\* HTTP status, or an error that is no HTTPError.
CreateFailedOtherwise(reply) ==
  \/ reply.kind = "error"
  \/ reply.kind = "http_error" /\ reply.status_code # Conflict

\* C21: a create call that fails with anything but a 409 ends the
\* resolution at once: no id is returned, the lookup is not repeated, and
\* the driver goes on with the next spec.
C21_CreateFailureIsFinal ==
  [][(pc = "create" /\ Called("create") /\ CreateFailedOtherwise(lastResp'))
       => /\ pc' = "loop"
          /\ idx' = idx + 1
          /\ repo_config_id' = None
          /\ all_resource_ids' = all_resource_ids
          /\ calls' = <<"lookup", "create">>]_vars

\* C21 witness: the first spec was given up right after a create call that
\* answered 401.
C21_Witness ==
  /\ pc = "loop"
  /\ idx = 2
  /\ calls = <<"lookup", "create">>
  /\ lastResp = [kind |-> "http_error", status_code |-> Unauthorized]
  /\ repo_config_id = None
  /\ obtained[Len(obtained)] = <<>>

\* The step of the protocol the i-th call of the current spec belongs to:
\* 1 resolve the registration, 2 pre-check read, 3 create job, 4 start job,
\* 5 poll, 6 final read.
PhaseOf(i) ==
  IF calls[i] \in {"lookup", "create"} THEN 1
  ELSE IF calls[i] = "job" THEN 3
  ELSE IF calls[i] = "start" THEN 4
  ELSE IF calls[i] = "poll" THEN 5
  ELSE IF \E k \in 1..(i - 1) : calls[k] = "job" THEN 6
  ELSE 2

\* The calls of the current spec follow the protocol: the phases never go
\* back, only resolving and polling take more than one call, every phase
\* from the job on follows the phase before it, and the final read follows
\* a poll.
InProtocolOrder ==
  /\ \A i, j \in 1..Len(calls) :
       i < j => /\ PhaseOf(i) <= PhaseOf(j)
                /\ PhaseOf(i) = PhaseOf(j) => PhaseOf(i) \in {1, 5}
  /\ \A i \in 1..Len(calls) :
       /\ PhaseOf(i) = 1 => i <= 3
       /\ PhaseOf(i) = 2 => (i > 1 /\ PhaseOf(i - 1) = 1)
       /\ PhaseOf(i) = 3 => (i > 1 /\ PhaseOf(i - 1) = 2)
       /\ PhaseOf(i) = 4 => (i > 1 /\ PhaseOf(i - 1) = 3)
       /\ PhaseOf(i) = 5 => (i > 1 /\ PhaseOf(i - 1) \in {4, 5})
       /\ PhaseOf(i) = 6 => (i > 1 /\ PhaseOf(i - 1) = 5)

\* C22: for each spec the remote steps occur in the order resolve
\* registration, pre-check read, create job, start job, poll, final read; a
\* job is created only with a registration id, started only with the job id
\* its creation returned, polled only after the start reported RUNNING; at
\* most one job is created and started per spec; and calls are issued only
\* inside the body of the one spec the loop is at, which ends before the
\* next begins.
C22_ProtocolOrder ==
  /\ [](/\ InProtocolOrder
        /\ Issued("job") <= 1
        /\ Issued("start") <= 1
        /\ Issued("job") > 0 => repo_config_id # None
        /\ Issued("start") > 0 => code_scan_job_id # None
        /\ (calls # <<>> /\ calls[Len(calls)] = "poll")
             => lastResp = [kind |-> "ok", status |-> "RUNNING"])
  /\ [][/\ Called("job") => (repo_config_id # None /\ calls[Len(calls)] = "read")
        /\ Called("start") => (code_scan_job_id' # None
                               /\ code_scan_job_id' = code_scan_job_id
                               /\ code_scan_job_id = lastResp.code_scan_job_id)
        /\ (calls' # calls /\ calls' # <<>>)
             => (pc \notin {"entry", "loop", "done"} /\ idx <= Len(models)
                 /\ Len(calls') = Len(calls) + 1)
        /\ idx' # idx => (idx' = idx + 1 /\ pc' = "loop")
        /\ (calls' = <<>> /\ calls # <<>>) => pc = "loop"]_vars

\* C22 witness: a spec went through the whole protocol, the final read
\* after a poller that timed out included.
C22_Witness ==
  /\ pc = "loop"
  /\ Len(calls) >= 6
  /\ SubSeq(calls, 1, 5) = <<"lookup", "read", "job", "start", "poll">>
  /\ calls[Len(calls)] = "read"
  /\ calls[Len(calls) - 1] = "poll"

\* C23: a lookup query that raises is taken for "not found": after the
\* first lookup the create call is what follows, as after a reply without
\* the key; and when the create call answered 409 and the repeated lookup
\* raises, the spec is given up without an id.
C23_FailedLookupIsNotFound ==
  /\ [][(pc = "lookup" /\ Called("lookup") /\ ~lastResp'.ok)
          => /\ pc' = "create"
             /\ repo_config_id' = None
             /\ idx' = idx
             /\ all_resource_ids' = all_resource_ids]_vars
  /\ [][(pc = "conflict" /\ Called("lookup") /\ ~lastResp'.ok)
          => /\ pc' = "loop"
             /\ idx' = idx + 1
             /\ repo_config_id' = None
             /\ all_resource_ids' = all_resource_ids]_vars
  /\ [](pc = "create" => (ENABLED CreateConfig /\ calls = <<"lookup">>))

\* C23 witness: the first lookup raised and the create call is next.
C23_Witness ==
  /\ pc = "create"
  /\ project_id = "p1"
  /\ calls = <<"lookup">>
  /\ lastResp = [ok |-> FALSE]
  /\ repo_config_id = None

\* The read raised, or its reply does not hold the registration.
ReadFailed(reply) ==
  \/ ~reply.ok
  \/ FindById(reply.repositories, repo_config_id) = 0

\* C24: a pre-check read that raises, or whose reply does not hold the
\* registration, is taken for "no resources": nothing is added to the
\* result, the spec is not skipped, and the driver goes on to create the
\* scan job and, with a job id, to start it.
C24_FailedPreCheckLaunchesScan ==
  /\ [][(pc = "precheck" /\ Called("read") /\ ReadFailed(lastResp'))
          => /\ pc' = "job"
             /\ idx' = idx
             /\ all_resource_ids' = all_resource_ids
             /\ obtained' = obtained]_vars
  /\ [](pc = "job" => (ENABLED CreateJob /\ calls[Len(calls)] = "read"))
  /\ [](pc = "start" => (ENABLED StartJob /\ calls[Len(calls)] = "job"))

\* C24 witness: the pre-check read raised and creating the scan job is
\* next, with nothing added to the result.
C24_Witness ==
  /\ pc = "job"
  /\ calls = <<"lookup", "read">>
  /\ lastResp = [ok |-> FALSE]
  /\ repo_config_id = "c1"
  /\ all_resource_ids = <<>>

\* ================================================================ RaceSpec
\* Two callers run _create_repository_config for the same (organization,
\* repo_name) with the same project id, their lookups and creates
\* interleaved in every order, against a service that answers every call,
\* keeps one registration per key and rejects a duplicate create with 409.

RaceOrganization == "orgA"
RaceRepo == "repoA"

\* The service's registrations before the callers start: the key absent,
\* or registered without project or under the callers' project.
RaceRegistries(p) ==
  { <<>>,
    << OtherName(RaceOrganization) >>,
    << OtherVcs(RaceOrganization, RaceRepo) >>,
    << OtherVcs(RaceOrganization, RaceRepo), OtherName(RaceOrganization) >>,
    << OtherName(RaceOrganization), OtherVcs(RaceOrganization, RaceRepo) >>,
    << Match(RaceOrganization, RaceRepo, None) >>,
    << Match(RaceOrganization, RaceRepo, p) >>,
    << OtherVcs(RaceOrganization, RaceRepo), Match(RaceOrganization, RaceRepo, None) >>,
    << Match(RaceOrganization, RaceRepo, p), OtherName(RaceOrganization) >> }

\* The service's registrations of the callers' key.
KeyRegistrations ==
  { i \in 1..Len(registry) :
      /\ registry[i].organization = RaceOrganization
      /\ registry[i].name = RaceRepo
      /\ registry[i].vcs = "huggingface_hub" }

\* The service's answer to getRepositories.
ServiceLookup == [ok |-> TRUE, repositories |-> registry]

\* The service's answer to POST .../repositories for the callers' key: 409
\* when the key is registered, else the id of the registration it makes.
ServiceCreate ==
  IF KeyRegistrations # {}
  THEN [kind |-> "http_error", status_code |-> Conflict]
  ELSE [kind |-> "ok", repository_config_id |-> "c9"]

\* The service's registrations after that create call.
ServiceCreated ==
  IF KeyRegistrations # {} THEN registry
  ELSE Append(registry, Reg("c9", RaceOrganization, RaceRepo, "huggingface_hub",
                            project_id))

RaceInit ==
  /\ models = <<>>
  /\ project_id \in {"p1", "p2"}
  /\ pc = "race"
  /\ idx = 1
  /\ all_resource_ids = <<>>
  /\ repo_config_id = None
  /\ code_scan_job_id = None
  /\ elapsed = 0
  /\ poll_count = 0
  /\ last_resource_count = 0
  /\ stable_count = 0
  /\ poll_result = Running
  /\ calls = <<>>
  /\ lastResp = [kind |-> "none"]
  /\ obtained = <<>>
  /\ observed = <<>>
  /\ registry \in RaceRegistries(project_id)
  /\ cpc = [c \in Callers |-> "lookup"]
  /\ cret = [c \in Callers |-> None]
  /\ csteps = [c \in Callers |-> <<>>]
  /\ ParseIdle

\* Lines 122-133: the proactive lookup of caller c.
RaceLookup(c) ==
  /\ cpc[c] = "lookup"
  /\ LET found == find_existing_repository(ServiceLookup, RaceOrganization, RaceRepo,
                                           project_id)
     IN  IF found # None
         THEN /\ cret' = [cret EXCEPT ![c] = found]
              /\ cpc' = [cpc EXCEPT ![c] = "returned"]
         ELSE /\ cpc' = [cpc EXCEPT ![c] = "create"]
              /\ UNCHANGED cret
  /\ csteps' = [csteps EXCEPT ![c] = Append(@, "lookup")]
  /\ UNCHANGED <<driverVars, pollVars, histVars, observed, registry, parseVars>>

\* Lines 135-189 up to the lookup of the 409 handler: the create call of
\* caller c.
RaceCreate(c) ==
  /\ cpc[c] = "create"
  /\ registry' = ServiceCreated
  /\ IF create_outcome(ServiceCreate) = "created"
     THEN /\ cret' = [cret EXCEPT ![c] = ServiceCreate.repository_config_id]
          /\ cpc' = [cpc EXCEPT ![c] = "returned"]
     ELSE IF create_outcome(ServiceCreate) = "conflict"
     THEN /\ cpc' = [cpc EXCEPT ![c] = "conflict"]
          /\ UNCHANGED cret
     ELSE /\ cpc' = [cpc EXCEPT ![c] = "returned"]
          /\ UNCHANGED cret
  /\ csteps' = [csteps EXCEPT ![c] = Append(@, "create")]
  /\ UNCHANGED <<driverVars, pollVars, histVars, observed, parseVars>>

\* Lines 167-182: the lookup of caller c after its 409.
RaceFindAfterConflict(c) ==
  /\ cpc[c] = "conflict"
  /\ cret' = [cret EXCEPT ![c] =
                find_existing_repository(ServiceLookup, RaceOrganization, RaceRepo,
                                         project_id)]
  /\ cpc' = [cpc EXCEPT ![c] = "returned"]
  /\ csteps' = [csteps EXCEPT ![c] = Append(@, "lookup")]
  /\ UNCHANGED <<driverVars, pollVars, histVars, observed, registry, parseVars>>

RaceNext ==
  \E c \in Callers :
    \/ RaceLookup(c)
    \/ RaceCreate(c)
    \/ RaceFindAfterConflict(c)

RaceSpec == RaceInit /\ [][RaceNext]_vars

OrgNames == { <<"a">>, <<"a", "b">> }
RepoNames == { <<"b">>, <<"b", "a">> }
\* the revision suffixes of an item; <<>> stands for no suffix
Revisions == { <<>>, <<"v">>, Main }

\* The items of a text: organization/repoName[@revision], bare or padded
\* with blanks, and items that are no repository: without a slash, empty,
\* blank, or a piece of JSON.
TokenChoices ==
  { [kind |-> "repo", organization |-> o, repo |-> r, revision |-> v, pad |-> FALSE] :
      o \in OrgNames, r \in RepoNames, v \in Revisions }
  \cup
  { [kind |-> "repo", organization |-> <<"a">>, repo |-> <<"b">>, revision |-> v, pad |-> TRUE] :
      v \in Revisions }
  \cup
  { [kind |-> "other", text |-> t] :
      t \in { <<>>, <<Blank>>, <<"a">>, <<"a", "@", "v">> } }
  \cup
  { [kind |-> "json", text |-> t] :
      t \in { <<"[", "]">>, <<"{", "}">>, <<"[", "{", "}", "]">> } }

TokenLists == UNION { [1..n -> TokenChoices] : n \in 0..MaxTokens }

\* The text of one item.
Serialize(token) ==
  IF token.kind = "repo"
  THEN LET bare == token.organization \o <<"/">> \o token.repo
                   \o (IF token.revision = <<>> THEN <<>> ELSE <<"@">> \o token.revision)
       IN IF token.pad THEN <<Blank>> \o bare \o <<Blank>> ELSE bare
  ELSE token.text

\* The text of a list of items: the items joined by commas.
RECURSIVE Join(_)
Join(ts) ==
  IF ts = <<>> THEN <<>>
  ELSE IF Len(ts) = 1 THEN Serialize(ts[1])
  ELSE Serialize(ts[1]) \o <<",">> \o Join(Tail(ts))

ParseInit ==
  /\ tokens \in TokenLists
  /\ models_str = Join(tokens)
  /\ models = <<>>
  /\ project_id = None
  /\ pc = "parse"
  /\ idx = 1
  /\ all_resource_ids = <<>>
  /\ repo_config_id = None
  /\ code_scan_job_id = None
  /\ elapsed = 0
  /\ poll_count = 0
  /\ last_resource_count = 0
  /\ stable_count = 0
  /\ poll_result = Running
  /\ calls = <<>>
  /\ lastResp = [kind |-> "none"]
  /\ obtained = <<>>
  /\ observed = <<>>
  /\ RaceIdle

\* The caller parses the configuration and passes the list to
\* onboard_huggingface_models.
ParseConfig ==
  /\ pc = "parse"
  /\ models' = parse_huggingface_models_from_config(models_str)
  /\ pc' = "entry"
  /\ UNCHANGED <<project_id, idx, all_resource_ids, repo_config_id,
                 code_scan_job_id, pollVars, histVars, observed, raceVars, parseVars>>

ParseNext == ParseConfig \/ ReturnNothing \/ EnterLoop

ParseSpec == ParseInit /\ [][ParseNext]_vars

\* ------------------------------------------------------ claims, ParseSpec
\* No remote call was issued.
NoNetworkCall ==
  /\ calls = <<>>
  /\ lastResp = [kind |-> "none"]
  /\ poll_count = 0
  /\ observed = <<>>

\* C14: an empty configuration text parses to the empty list, and
\* onboard_huggingface_models on an empty list returns the empty result
\* without a lookup, create, job, start or read request.
C14_EmptyConfigNoCalls ==
  /\ (models_str = <<>> /\ pc # "parse") => models = <<>>
  /\ (pc \in {"entry", "loop", "done"} /\ models = <<>>)
       => /\ pc # "loop"
          /\ all_resource_ids = <<>>
          /\ NoNetworkCall

\* C14 witness: the empty text was parsed and onboard returned.
C14_Witness ==
  /\ models_str = <<>>
  /\ tokens = <<>>
  /\ pc = "done"
  /\ all_resource_ids = <<>>

\* The text is a JSON document, the other form of configuration: its one
\* item is a JSON array or object.
JsonDocument == Len(tokens) = 1 /\ tokens[1].kind = "json"

\* The entries the items stand for: one per organization/repoName[@revision]
\* item, in the order of the text, nothing for the other items.
RECURSIVE ExpectedEntries(_)
ExpectedEntries(ts) ==
  IF ts = <<>> THEN <<>>
  ELSE (IF Head(ts).kind = "repo"
        THEN <<[organization_id |-> Head(ts).organization,
                repo_name |-> Head(ts).repo,
                revision |-> IF Head(ts).revision = <<>> THEN Main
                             ELSE Head(ts).revision]>>
        ELSE <<>>)
       \o ExpectedEntries(Tail(ts))

\* C16: for a comma-separated text, the parsed list has one entry per
\* organization/repoName[@revision] item, in the order of the text, with
\* the item's organization and repository name, and with its revision, or
\* "main" when it has none; the items without a slash add nothing and do
\* not fail the parse.
C16_ParserRoundTrip ==
  (pc # "parse" /\ ~JsonDocument) => models = ExpectedEntries(tokens)

\* C16 witness: a text of two repository items, the first padded and
\* without revision, the second with one, was parsed into two entries.
C16_Witness ==
  /\ pc = "loop"
  /\ Len(tokens) = 2
  /\ tokens[1].kind = "repo" /\ tokens[1].pad /\ tokens[1].revision = <<>>
  /\ tokens[2].kind = "repo" /\ tokens[2].revision = <<"v">>
  /\ tokens[2].organization # tokens[1].organization
  /\ Len(models) = 2
  /\ models[1].revision = Main
  /\ models[2].revision = <<"v">>

\* ---------------------------------------------------------------------
\* FindSpec: _find_existing_repository on any reply of the getRepositories
\* query, a list of up to MaxRepos registrations with any organization,
\* name, vcs and project, several of them with the wanted key included.

FindOrganization == "orgA"
FindRepo == "repoA"

\* The ids of the registrations of a reply, by their place in it.
RepoIds == <<"c1", "c2", "c3", "c4">>

\* A registration as the reply describes it, its id left out.
RegistrationKinds ==
  [organization : {FindOrganization, "orgB"},
   name : {FindRepo, "repoB"},
   vcs : {"huggingface_hub", "github"},
   project : {None, "p1", "p2"}]

WithIds(kinds) ==
  [i \in 1..Len(kinds) |->
     Reg(RepoIds[i], kinds[i].organization, kinds[i].name, kinds[i].vcs,
         kinds[i].project)]

AnyLookupReplies ==
  { [ok |-> FALSE] }
    \cup { [ok |-> TRUE, repositories |-> WithIds(kinds)] :
             kinds \in UNION { [1..n -> RegistrationKinds] : n \in 0..MaxRepos } }

FindInit ==
  /\ models = << [organization_id |-> FindOrganization, repo_name |-> FindRepo,
                  revision |-> "main"] >>
  /\ project_id \in {None, "p1", "p2"}
  /\ pc = "find"
  /\ idx = 1
  /\ all_resource_ids = <<>>
  /\ repo_config_id = None
  /\ code_scan_job_id = None
  /\ elapsed = 0
  /\ poll_count = 0
  /\ last_resource_count = 0
  /\ stable_count = 0
  /\ poll_result = Running
  /\ calls = <<>>
  /\ lastResp = [kind |-> "none"]
  /\ obtained = <<>>
  /\ observed = <<>>
  /\ RaceIdle
  /\ ParseIdle

\* Lines 14-96: one call of _find_existing_repository.
FindRepository ==
  /\ pc = "find"
  /\ \E reply \in AnyLookupReplies :
       /\ lastResp' = reply
       /\ calls' = Append(calls, "lookup")
       /\ repo_config_id' = find_existing_repository(reply, models[idx].organization_id,
                                                     models[idx].repo_name, project_id)
  /\ pc' = "found"
  /\ UNCHANGED <<models, project_id, idx, all_resource_ids, code_scan_job_id,
                 pollVars, obtained, observed, raceVars, parseVars>>

FindNext == FindRepository

FindSpec == FindInit /\ [][FindNext]_vars

\* ------------------------------------------------------- claims, FindSpec
\* The registration at place i of the reply has the wanted organization and
\* name on the HuggingFace hub, and a project the caller can use: none, the
\* caller's, or any when the caller named none.
Acceptable(i) ==
  /\ lastResp.repositories[i].organization = Current.organization_id
  /\ lastResp.repositories[i].name = Current.repo_name
  /\ lastResp.repositories[i].vcs = "huggingface_hub"
  /\ \/ lastResp.repositories[i].project = None
     \/ lastResp.repositories[i].project = project_id
     \/ project_id = None

\* C19: the id _find_existing_repository returns is that of a registration
\* with the wanted organization, name and vcs huggingface_hub whose project
\* is absent, or the caller's, or any when the caller named none; it is the
\* first such registration of the reply; and no registration whose project
\* differs from the project the caller named is returned.
C19_AcceptanceRule ==
  (pc = "found" /\ repo_config_id # None)
    => /\ lastResp.ok
       /\ \E i \in 1..Len(lastResp.repositories) :
            /\ lastResp.repositories[i].id = repo_config_id
            /\ Acceptable(i)
            /\ \A j \in 1..(i - 1) : ~Acceptable(j)
       /\ \A i \in 1..Len(lastResp.repositories) :
            (/\ project_id # None
             /\ lastResp.repositories[i].project # None
             /\ lastResp.repositories[i].project # project_id)
              => lastResp.repositories[i].id # repo_config_id

\* C19 witness: the reply holds the key twice, first without project and
\* then under the caller's project, and the first registration is returned.
C19_Witness ==
  /\ pc = "found"
  /\ project_id = "p1"
  /\ lastResp.ok
  /\ Len(lastResp.repositories) = 2
  /\ lastResp.repositories[1] = Reg("c1", FindOrganization, FindRepo, "huggingface_hub", None)
  /\ lastResp.repositories[2] = Reg("c2", FindOrganization, FindRepo, "huggingface_hub", "p1")
  /\ repo_config_id = "c1"

====
